---- MODULE Spec2Model ----
(***************************************************************************)
(* Identity verification service: the verification orchestrator            *)
(* (VerificationService), the document step (DocumentVerificationService)  *)
(* and the face step (FaceVerificationService), with the record store      *)
(* (the TypeORM repository of Verification entities) as the only state.    *)
(*                                                                         *)
(* Conventions                                                             *)
(*   - a nullable column or an optional property is Null (<<>>) or         *)
(*     Some(v) (<<v>>);                                                    *)
(*   - a text read by the code character by character (field values) is a  *)
(*     sequence of one-character strings; messages and field names are     *)
(*     strings;                                                            *)
(*   - a float score that the code obtains by a division is the reduced    *)
(*     fraction <<numerator, denominator>>;                                *)
(*   - the external analyzers (Textract, Rekognition) are inputs: each     *)
(*     call returns one response, chosen by the environment.               *)
(***************************************************************************)
EXTENDS Integers, Sequences, FiniteSets, TLC

\* ------------------------------------------------------------------------
\* Bounds of the model
\* ------------------------------------------------------------------------

\* number of state-changing handler calls (startVerification, verifyFace on a
\* stored record) in a run
MaxCalls == 3

\* ------------------------------------------------------------------------
\* Generic helpers
\* ------------------------------------------------------------------------

Null == <<>>

Some(v) == <<v>>

\* JavaScript `x || 0` on an optional number
OrZero(opt) == IF opt = Null THEN 0 ELSE opt[1]

\* JavaScript truthiness of an optional number: present and not 0
TruthyNum(opt) == opt # Null /\ opt[1] # 0

Abs(n) == IF n < 0 THEN -n ELSE n

RECURSIVE Gcd(_, _)
Gcd(a, b) == IF b = 0 THEN a ELSE Gcd(b, a % b)

\* the float num / den (den > 0, num >= 0), kept exact
Frac(num, den) == <<num \div Gcd(num, den), den \div Gcd(num, den)>>

\* f1 >= n for a fraction f1 and an integer n
FracGeq(f, n) == f[1] >= n * f[2]

RECURSIVE SeqSum(_)
SeqSum(s) == IF s = <<>> THEN 0 ELSE Head(s) + SeqSum(Tail(s))

\* Array.prototype.join(', ') on an array of strings
RECURSIVE JoinComma(_)
JoinComma(s) ==
  IF s = <<>> THEN ""
  ELSE IF Len(s) = 1 THEN s[1]
       ELSE s[1] \o ", " \o JoinComma(Tail(s))

\* ------------------------------------------------------------------------
\* Entity: enums of verification.entity.ts
\* ------------------------------------------------------------------------

PENDING == "pending"

IN_PROGRESS == "in_progress"

COMPLETED == "completed"

FAILED == "failed"

VerificationStatus == {PENDING, IN_PROGRESS, COMPLETED, FAILED}

PASSPORT == "passport"

DRIVERS_LICENSE == "drivers_license"

ID_CARD == "id_card"

DocumentType == {PASSPORT, DRIVERS_LICENSE, ID_CARD}

\* new BadRequestException(message).message: the message given, or the
\* default description when it is empty
BadRequestException(message) == IF message = "" THEN "Bad Request" ELSE message

\* ------------------------------------------------------------------------
\* Document step: DocumentVerificationService
\* ------------------------------------------------------------------------

\* String.prototype.toLowerCase on the field names the analyzer returns
ToLowerCase(name) ==
  CASE name = "FIRST_NAME" -> "first_name"
    [] name = "LAST_NAME" -> "last_name"
    [] name = "DATE_OF_BIRTH" -> "date_of_birth"
    [] name = "PASSPORT_NUMBER" -> "passport_number"
    [] name = "LICENSE_NUMBER" -> "license_number"
    [] name = "ID_NUMBER" -> "id_number"
    [] name = "EXPIRATION_DATE" -> "expiration_date"
    [] name = "NATIONALITY" -> "nationality"
    [] name = "STATE" -> "state"
    [] name = "Expiration_Date" -> "expiration_date"
    [] OTHER -> name

\* parseDocumentFields: the fields that have a type text and a value text,
\* keyed by the lower-cased type; a later field of the same type overwrites
\* an earlier one.  A field is [type, text, confidence]: "" / <<>> for an
\* absent or empty text, Null for an absent confidence.
RECURSIVE parseDocumentFieldsFrom(_, _)
parseDocumentFieldsFrom(fieldList, acc) ==
  IF fieldList = <<>> THEN acc
  ELSE LET field == Head(fieldList)
           key == ToLowerCase(field.type)
           entry == [value |-> field.text, confidence |-> field.confidence]
           next == IF field.type # "" /\ field.text # <<>>
                   THEN [k \in DOMAIN acc \cup {key} |->
                           IF k = key THEN entry ELSE acc[k]]
                   ELSE acc
       IN parseDocumentFieldsFrom(Tail(fieldList), next)

parseDocumentFields(document) ==
  parseDocumentFieldsFrom(document.IdentityDocumentFields, <<>>)

\* the confidences calculateConfidenceScore adds up: those that are truthy
RECURSIVE CountedConfidences(_)
CountedConfidences(fieldList) ==
  IF fieldList = <<>> THEN <<>>
  ELSE IF TruthyNum(Head(fieldList).confidence)
       THEN <<Head(fieldList).confidence[1]>> \o CountedConfidences(Tail(fieldList))
       ELSE CountedConfidences(Tail(fieldList))

calculateConfidenceScore(document) ==
  LET counted == CountedConfidences(document.IdentityDocumentFields)
      totalConfidence == SeqSum(counted)
      fieldCount == Len(counted)
  IN IF fieldCount > 0 THEN Frac(totalConfidence, fieldCount) ELSE Frac(0, 1)

\* variant: the type-specific fields are left out of the required list
getRequiredFieldsCommonOnly(documentType) ==
  <<"FIRST_NAME", "LAST_NAME", "DATE_OF_BIRTH">>

getRequiredFields(documentType) ==
  LET commonFields == <<"FIRST_NAME", "LAST_NAME", "DATE_OF_BIRTH">>
  IN CASE documentType = PASSPORT ->
            commonFields \o <<"PASSPORT_NUMBER", "EXPIRATION_DATE", "NATIONALITY">>
       [] documentType = DRIVERS_LICENSE ->
            commonFields \o <<"LICENSE_NUMBER", "EXPIRATION_DATE", "STATE">>
       [] documentType = ID_CARD ->
            commonFields \o <<"ID_NUMBER", "EXPIRATION_DATE">>
       [] OTHER -> commonFields

\* extractedData[key]?.value, "" (falsy) when the key is absent
ValueOf(extractedData, key) ==
  IF key \in DOMAIN extractedData THEN extractedData[key].value ELSE <<>>

Digits == <<"0", "1", "2", "3", "4", "5", "6", "7", "8", "9">>

IsDigit(c) == \E i \in 1..10 : Digits[i] = c

DigitValue(c) == (CHOOSE i \in 1..10 : Digits[i] = c) - 1

UpperLetters == {"A", "B", "C", "D", "E", "F", "G", "H", "I", "J", "K", "L", "M",
                 "N", "O", "P", "Q", "R", "S", "T", "U", "V", "W", "X", "Y", "Z"}

IsLeapYear(year) == year % 4 = 0 /\ (year % 100 # 0 \/ year % 400 = 0)

\* days from 1970-01-01 to January 1st of the year
DaysToYear(year) ==
  365 * (year - 1970) + ((year - 1969) \div 4) - ((year - 1901) \div 100)
    + ((year - 1601) \div 400)

DaysInMonth(year, month) ==
  IF month = 2 THEN (IF IsLeapYear(year) THEN 29 ELSE 28)
  ELSE IF month \in {4, 6, 9, 11} THEN 30 ELSE 31

RECURSIVE DaysToMonth(_, _)
DaysToMonth(year, month) ==
  IF month = 1 THEN 0
  ELSE DaysToMonth(year, month - 1) + DaysInMonth(year, month - 1)

\* the number written by the digits text[from..to]
RECURSIVE Number(_, _, _)
Number(text, from, to) ==
  IF to < from THEN 0
  ELSE 10 * Number(text, from, to - 1) + DigitValue(text[to])

AllDigits(text, from, to) == \A i \in from..to : IsDigit(text[i])

\* new Date(text).getTime() in days since the epoch, for the date-only ISO
\* forms "YYYY" and "YYYY-MM-DD" (UTC midnight); any other text of the model
\* is an Invalid Date (Null)
ParseDate(text) ==
  IF Len(text) = 4 /\ AllDigits(text, 1, 4)
  THEN Some(DaysToYear(Number(text, 1, 4)))
  ELSE IF /\ Len(text) = 10
          /\ AllDigits(text, 1, 4) /\ text[5] = "-"
          /\ AllDigits(text, 6, 7) /\ text[8] = "-"
          /\ AllDigits(text, 9, 10)
          /\ Number(text, 6, 7) \in 1..12
          /\ Number(text, 9, 10) \in 1..DaysInMonth(Number(text, 1, 4), Number(text, 6, 7))
  THEN Some(DaysToYear(Number(text, 1, 4))
            + DaysToMonth(Number(text, 1, 4), Number(text, 6, 7))
            + Number(text, 9, 10) - 1)
  ELSE Null

\* variant: the pattern without its anchors, /[A-Z0-9]{6,9}/, which accepts
\* any text that contains six such characters in a row
PassportNumberPatternUnanchored(text) ==
  \E from \in 1..Len(text) :
    /\ from + 5 <= Len(text)
    /\ \A i \in from..(from + 5) : text[i] \in UpperLetters \/ IsDigit(text[i])

\* /^[A-Z0-9]{6,9}$/.test(text)
PassportNumberPattern(text) ==
  /\ Len(text) >= 6
  /\ Len(text) <= 9
  /\ \A i \in 1..Len(text) : text[i] \in UpperLetters \/ IsDigit(text[i])

Valid == [isValid |-> TRUE, reason |-> ""]

Invalid(reason) == [isValid |-> FALSE, reason |-> reason]

validatePassport(data) ==
  LET passportNumber == ValueOf(data, "passport_number")
  IN IF passportNumber = <<>> \/ ~PassportNumberPattern(passportNumber)
     THEN Invalid("Invalid passport number format")
     ELSE Valid

validateDriversLicense(data) ==
  LET licenseNumber == ValueOf(data, "license_number")
  IN IF licenseNumber = <<>> \/ Len(licenseNumber) < 5
     THEN Invalid("Invalid license number format")
     ELSE Valid

validateIdCard(data) ==
  LET idNumber == ValueOf(data, "id_number")
  IN IF idNumber = <<>> \/ Len(idNumber) < 5
     THEN Invalid("Invalid ID number format")
     ELSE Valid

\* variant: a document that expires at the instant of the check is rejected
\* too (<= for <)
IsBeforeOrAt(expirationDate, now) == expirationDate # Null /\ expirationDate[1] <= now

\* expirationDate < new Date(): false for an Invalid Date, whose time is NaN
IsBefore(expirationDate, now) == expirationDate # Null /\ expirationDate[1] < now

\* variant: the expiration check runs before the missing-field check
validateExpirationFirst(documentType, extractedData, now) ==
  LET requiredFields == getRequiredFields(documentType)
      IsMissing(field) == ValueOf(extractedData, ToLowerCase(field)) = <<>>
      missingFields == SelectSeq(requiredFields, IsMissing)
      expiration == ValueOf(extractedData, "expiration_date")
  IN IF expiration # <<>> /\ IsBefore(ParseDate(expiration), now)
     THEN Invalid("Document has expired")
     ELSE IF Len(missingFields) > 0
     THEN Invalid("Missing required fields: " \o JoinComma(missingFields))
     ELSE CASE documentType = PASSPORT -> validatePassport(extractedData)
            [] documentType = DRIVERS_LICENSE -> validateDriversLicense(extractedData)
            [] documentType = ID_CARD -> validateIdCard(extractedData)
            [] OTHER -> Valid

\* validateDocumentAuthenticity at the instant `now` (days since the epoch)
validateDocumentAuthenticity(documentType, extractedData, now) ==
  LET requiredFields == getRequiredFields(documentType)
      IsMissing(field) == ValueOf(extractedData, ToLowerCase(field)) = <<>>
      missingFields == SelectSeq(requiredFields, IsMissing)
      expiration == ValueOf(extractedData, "expiration_date")
      expirationDate == ParseDate(expiration)
  IN IF Len(missingFields) > 0
     THEN Invalid("Missing required fields: " \o JoinComma(missingFields))
     ELSE IF expiration # <<>> /\ IsBefore(expirationDate, now)
     THEN Invalid("Document has expired")
     ELSE CASE documentType = PASSPORT -> validatePassport(extractedData)
            [] documentType = DRIVERS_LICENSE -> validateDriversLicense(extractedData)
            [] documentType = ID_CARD -> validateIdCard(extractedData)
            [] OTHER -> Valid

\* A step's outcome: either it threw (threw, message) or it returned `value`
Threw(message) == [threw |-> TRUE, message |-> message, value |-> Null]

Returned(value) == [threw |-> FALSE, message |-> "", value |-> Some(value)]

\* Textract's answer to AnalyzeID: the call rejects with an error message,
\* or resolves with IdentityDocuments (Null or empty when there is none)
TextractError(message) == [error |-> Some(message), IdentityDocuments |-> <<>>]

TextractResponse(documents) == [error |-> Null, IdentityDocuments |-> documents]

\* verifyDocument: every failure leaves as a BadRequestException carrying
\* the message of the error caught
verifyDocument(documentType, response, now) ==
  IF response.error # Null
  THEN Threw(BadRequestException(response.error[1]))
  ELSE IF response.IdentityDocuments = <<>>
  THEN Threw(BadRequestException(BadRequestException("Failed to analyze document")))
  ELSE LET document == response.IdentityDocuments[1]
           fields == parseDocumentFields(document)
           validationResult == validateDocumentAuthenticity(documentType, fields, now)
       IN IF ~validationResult.isValid
          THEN Threw(BadRequestException(BadRequestException(validationResult.reason)))
          ELSE Returned([isValid |-> TRUE,
                         extractedData |-> fields,
                         confidenceScore |-> calculateConfidenceScore(document)])

\* ------------------------------------------------------------------------
\* Face step: FaceVerificationService
\* ------------------------------------------------------------------------

\* Minimum similarity score for face match (percent)
SIMILARITY_THRESHOLD == 90

\* Minimum quality score for face detection (percent)
QUALITY_THRESHOLD == 80

minBrightness == 50

minSharpness == 50

maxAngle == 20

\* A FaceDetail of Rekognition, every property optional:
\*   EyesOpen   Null or Some(confidence)
\*   Quality    Null or Some([Brightness, Sharpness]), each Null or Some(n)
\*   Pose       Null or Some([Pitch, Roll, Yaw]), each Null or Some(n)
\*   Sunglasses Null or Some(BOOLEAN)   (the Value of the attribute)
isQualityAcceptable(faceDetails) ==
  LET quality == faceDetails.Quality
  IN IF quality = Null THEN FALSE
     ELSE /\ OrZero(quality[1].Brightness) >= minBrightness
          /\ OrZero(quality[1].Sharpness) >= minSharpness

\* variant: the yaw is not looked at
isPoseAcceptableNoYaw(faceDetails) ==
  LET pose == faceDetails.Pose
  IN IF pose = Null THEN FALSE
     ELSE /\ Abs(OrZero(pose[1].Pitch)) <= maxAngle
          /\ Abs(OrZero(pose[1].Roll)) <= maxAngle

isPoseAcceptable(faceDetails) ==
  LET pose == faceDetails.Pose
  IN IF pose = Null THEN FALSE
     ELSE /\ Abs(OrZero(pose[1].Pitch)) <= maxAngle
          /\ Abs(OrZero(pose[1].Roll)) <= maxAngle
          /\ Abs(OrZero(pose[1].Yaw)) <= maxAngle

\* the signals calculateLivenessScore adds up, in the order of the code
LivenessFactors(faceDetails) ==
  LET quality == faceDetails.Quality
      brightness == IF quality = Null THEN Null ELSE quality[1].Brightness
      sharpness == IF quality = Null THEN Null ELSE quality[1].Sharpness
  IN (IF TruthyNum(faceDetails.EyesOpen) THEN <<faceDetails.EyesOpen[1]>> ELSE <<>>)
     \o (IF TruthyNum(brightness) THEN <<brightness[1]>> ELSE <<>>)
     \o (IF TruthyNum(sharpness) THEN <<sharpness[1]>> ELSE <<>>)
     \o (IF isPoseAcceptable(faceDetails) THEN <<100>> ELSE <<>>)
     \o (IF faceDetails.Sunglasses = Some(FALSE) THEN <<100>> ELSE <<>>)

calculateLivenessScore(faceDetails) ==
  LET signals == LivenessFactors(faceDetails)
      score == SeqSum(signals)
      factors == Len(signals)
  IN IF factors > 0 THEN Frac(score, factors) ELSE Frac(0, 1)

\* Rekognition's answer to DetectFaces: the call rejects with an error
\* message, or resolves with FaceDetails (<<>> when absent or empty)
DetectFacesError(message) == [error |-> Some(message), FaceDetails |-> <<>>]

DetectFacesResponse(faces) == [error |-> Null, FaceDetails |-> faces]

\* Rekognition's answer to CompareFaces: FaceMatches is a list of
\* [Similarity |-> Null or Some(n), Face |-> face], UnmatchedFaces a count
CompareFacesError(message) ==
  [error |-> Some(message), FaceMatches |-> <<>>, UnmatchedFaces |-> 0]

CompareFacesResponse(matches, unmatched) ==
  [error |-> Null, FaceMatches |-> matches, UnmatchedFaces |-> unmatched]

\* detectFaceQuality never throws: an analyzer error becomes a rejection
detectFaceQuality(response) ==
  IF response.error # Null THEN Invalid(response.error[1])
  ELSE IF Len(response.FaceDetails) = 0
  THEN Invalid("No face detected in the image")
  ELSE IF Len(response.FaceDetails) > 1
  THEN Invalid("Multiple faces detected in the image")
  ELSE LET faceDetails == response.FaceDetails[1]
       IN IF ~isQualityAcceptable(faceDetails)
          THEN Invalid("Image quality is too low")
          ELSE IF ~isPoseAcceptable(faceDetails)
          THEN Invalid("Face pose is not acceptable")
          ELSE Valid

\* variant: several detected faces are not rejected, the first is scored
detectLivenessFirstFace(response) ==
  IF response.error # Null
  THEN Threw(BadRequestException(response.error[1]))
  ELSE IF Len(response.FaceDetails) = 0
  THEN Threw(BadRequestException(BadRequestException("No face detected in the image")))
  ELSE LET faceDetails == response.FaceDetails[1]
           livenessScore == calculateLivenessScore(faceDetails)
       IN Returned([isLive |-> FracGeq(livenessScore, QUALITY_THRESHOLD),
                    confidence |-> livenessScore,
                    details |-> faceDetails])

\* detectLiveness on the analyzer's answer for the selfie
detectLiveness(response) ==
  IF response.error # Null
  THEN Threw(BadRequestException(response.error[1]))
  ELSE IF Len(response.FaceDetails) = 0
  THEN Threw(BadRequestException(BadRequestException("No face detected in the image")))
  ELSE IF Len(response.FaceDetails) > 1
  THEN Threw(BadRequestException(BadRequestException("Multiple faces detected in the image")))
  ELSE LET faceDetails == response.FaceDetails[1]
           livenessScore == calculateLivenessScore(faceDetails)
       IN Returned([isLive |-> FracGeq(livenessScore, QUALITY_THRESHOLD),
                    confidence |-> livenessScore,
                    details |-> faceDetails])

\* variant: the selfie's pre-check is looked at before the document's
FaceQualityIssueSelfieFirst(documentFaceQuality, selfieFaceQuality) ==
  IF ~selfieFaceQuality.isValid
  THEN Some(Threw(BadRequestException(BadRequestException(
                    "Selfie image issue: " \o selfieFaceQuality.reason))))
  ELSE IF ~documentFaceQuality.isValid
  THEN Some(Threw(BadRequestException(BadRequestException(
                    "Document face image issue: " \o documentFaceQuality.reason))))
  ELSE Null

\* what verifyFaceMatch does with the two pre-check results once Promise.all
\* has resolved: the exception it throws, Null when it goes on to compare
FaceQualityIssue(documentFaceQuality, selfieFaceQuality) ==
  IF ~documentFaceQuality.isValid
  THEN Some(Threw(BadRequestException(BadRequestException(
                    "Document face image issue: " \o documentFaceQuality.reason))))
  ELSE IF ~selfieFaceQuality.isValid
  THEN Some(Threw(BadRequestException(BadRequestException(
                    "Selfie image issue: " \o selfieFaceQuality.reason))))
  ELSE Null

\* what verifyFaceMatch makes of the analyzer's answer to the comparison
FaceMatchOf(comparison) ==
  IF comparison.error # Null
  THEN Threw(BadRequestException(comparison.error[1]))
  ELSE IF Len(comparison.FaceMatches) = 0
  THEN Returned([isMatch |-> FALSE,
                 confidence |-> 0,
                 details |-> [reason |-> "No matching faces found",
                              unmatched |-> comparison.UnmatchedFaces]])
  ELSE LET bestMatch == comparison.FaceMatches[1]
           confidence == OrZero(bestMatch.Similarity)
       IN Returned([isMatch |-> confidence >= SIMILARITY_THRESHOLD,
                    confidence |-> confidence,
                    details |-> [face |-> bestMatch.Face]])

\* verifyFaceMatch on the analyzer's answers: the two quality pre-checks
\* (document face, selfie) are both awaited (Promise.all), then compared.
verifyFaceMatch(documentResponse, selfieResponse, comparison) ==
  LET documentFaceQuality == detectFaceQuality(documentResponse)
      selfieFaceQuality == detectFaceQuality(selfieResponse)
      issue == FaceQualityIssue(documentFaceQuality, selfieFaceQuality)
  IN IF issue # Null THEN issue[1] ELSE FaceMatchOf(comparison)

\* ------------------------------------------------------------------------
\* Orchestrator: VerificationService over the record store
\* ------------------------------------------------------------------------

\* variant: create() without a status, so the column default applies
NewVerificationPending(id, userId, documentType) ==
  [id |-> id,
   userId |-> userId,
   documentType |-> documentType,
   documentData |-> Null,
   faceMatchResult |-> Null,
   status |-> PENDING,
   failureReason |-> Null,
   confidenceScore |-> Null]

\* verificationRepository.create({userId, documentType, status}) followed by
\* the first save, which generates the id; the nullable columns are null
NewVerification(id, userId, documentType) ==
  [id |-> id,
   userId |-> userId,
   documentType |-> documentType,
   documentData |-> Null,
   faceMatchResult |-> Null,
   status |-> IN_PROGRESS,
   failureReason |-> Null,
   confidenceScore |-> Null]

\* variant: the failure is recorded but the record is left open for a retry
FailLeavesInProgress(verification, message) ==
  [verification EXCEPT !.status = IN_PROGRESS, !.failureReason = Some(message)]

\* variant: a failed record is stripped of the extracted document data
FailDropsDocumentData(verification, message) ==
  [verification EXCEPT !.status = FAILED, !.failureReason = Some(message),
                       !.documentData = Null, !.confidenceScore = Null]

\* variant: a generic reason is persisted instead of the error's message
FailGenericReason(verification, message) ==
  [verification EXCEPT !.status = FAILED,
                       !.failureReason = Some("Verification failed")]

\* variant: the catch block records the reason but not the status
FailReasonOnly(verification, message) ==
  [verification EXCEPT !.failureReason = Some(message)]

\* the catch block shared by startVerification and verifyFace
Fail(verification, message) ==
  [verification EXCEPT !.status = FAILED, !.failureReason = Some(message)]

\* What a handler did: the entity as last saved (Null when nothing was
\* saved), the collaborator calls in order, the error thrown to the caller
\* (Null when it returned) and the entity returned (Null when it threw)
Outcome(saved, calls, thrown, returned) ==
  [saved |-> saved, calls |-> calls, thrown |-> thrown, returned |-> returned]

\* startVerification, given the id the store generates and the outcome of
\* documentVerificationService.verifyDocument
startVerification(id, userId, documentType, documentOutcome) ==
  LET verification == NewVerification(id, userId, documentType)
  IN IF documentOutcome.threw
     THEN LET failed == Fail(verification, documentOutcome.message)
          IN Outcome(Some(failed),
                     <<"create", "save", "verifyDocument", "save">>,
                     Some(documentOutcome.message), Null)
     ELSE LET documentResult == documentOutcome.value[1]
              withData == [verification EXCEPT
                             !.documentData = Some(documentResult.extractedData),
                             !.confidenceScore = Some(documentResult.confidenceScore)]
          IN IF ~documentResult.isValid
             THEN LET error == BadRequestException("Document verification failed")
                      failed == Fail(Fail(withData, "Document verification failed"), error)
                  IN Outcome(Some(failed),
                             <<"create", "save", "verifyDocument", "save", "save">>,
                             Some(error), Null)
             ELSE Outcome(Some(withData),
                          <<"create", "save", "verifyDocument", "save">>,
                          Null, Some(withData))

\* variant: the test reads the result object, which is always truthy
LivenessNeverRejected(livenessResult) == FALSE

\* the test `if (!livenessResult.isLive)` of verifyFace
LivenessRejected(livenessResult) == ~livenessResult.isLive

\* variant: the test reads the result object, which is always truthy
FaceMatchNeverRejected(faceMatchResult) == FALSE

\* the test `if (!faceMatchResult.isMatch)` of verifyFace
FaceMatchRejected(faceMatchResult) == ~faceMatchResult.isMatch

\* verifyFace on the entity findOne returned, given the outcome of
\* detectLiveness and the outcome verifyFaceMatch has if it is reached
verifyFace(verification, livenessOutcome, faceMatchOutcome) ==
  IF livenessOutcome.threw
  THEN Outcome(Some(Fail(verification, livenessOutcome.message)),
               <<"findOne", "detectLiveness", "save">>,
               Some(livenessOutcome.message), Null)
  ELSE IF LivenessRejected(livenessOutcome.value[1])
  THEN LET error == BadRequestException("Liveness check failed")
       IN Outcome(Some(Fail(Fail(verification, "Liveness check failed"), error)),
                  <<"findOne", "detectLiveness", "save", "save">>,
                  Some(error), Null)
  ELSE IF faceMatchOutcome.threw
  THEN Outcome(Some(Fail(verification, faceMatchOutcome.message)),
               <<"findOne", "detectLiveness", "verifyFaceMatch", "save">>,
               Some(faceMatchOutcome.message), Null)
  ELSE LET faceMatchResult == faceMatchOutcome.value[1]
           withResult == [verification EXCEPT !.faceMatchResult = Some(faceMatchResult)]
       IN IF FaceMatchRejected(faceMatchResult)
          THEN LET error == BadRequestException("Face match failed")
               IN Outcome(Some(Fail(Fail(withResult, "Face match failed"), error)),
                          <<"findOne", "detectLiveness", "verifyFaceMatch", "save", "save">>,
                          Some(error), Null)
          ELSE LET completed == [withResult EXCEPT !.status = COMPLETED]
               IN Outcome(Some(completed),
                          <<"findOne", "detectLiveness", "verifyFaceMatch", "save">>,
                          Null, Some(completed))

\* variant: the lookup result is tested after the liveness step
NotFoundAfterLiveness ==
  Outcome(Null, <<"findOne", "detectLiveness">>,
          Some(BadRequestException("Verification not found")), Null)

\* the answer of verifyFace and getVerificationStatus to an unknown id
NotFound ==
  Outcome(Null, <<"findOne">>, Some(BadRequestException("Verification not found")), Null)

\* variant: the read clears the failure reason and saves the entity
getVerificationStatusSaving(verification) ==
  LET cleared == [verification EXCEPT !.failureReason = Null]
  IN Outcome(Some(cleared), <<"findOne", "save">>, Null, Some(cleared))

\* getVerificationStatus on the entity findOne returned
getVerificationStatus(verification) ==
  Outcome(Null, <<"findOne">>, Null, Some(verification))

\* ------------------------------------------------------------------------
\* Inputs of the orchestrator runs
\* ------------------------------------------------------------------------

\* The inputs follow the fixtures of the services' tests; confidences and
\* similarities are whole percents.
Field(type, text, confidence) ==
  [type |-> type, text |-> text, confidence |-> confidence]

Document(fieldList) == [IdentityDocumentFields |-> fieldList]

CommonFields ==
  <<Field("FIRST_NAME", <<"J", "o", "h", "n">>, Some(99)),
    Field("LAST_NAME", <<"D", "o", "e">>, Some(99)),
    Field("DATE_OF_BIRTH", <<"1", "9", "8", "0", "-", "0", "1", "-", "0", "1">>, Some(98))>>

Date2030 == <<"2", "0", "3", "0", "-", "0", "1", "-", "0", "1">>

Date2020 == <<"2", "0", "2", "0", "-", "0", "1", "-", "0", "1">>

PassportFields(expiration) ==
  CommonFields \o
  <<Field("PASSPORT_NUMBER", <<"A", "B", "1", "2", "3", "4", "5", "6">>, Some(97)),
    Field("EXPIRATION_DATE", expiration, Some(98)),
    Field("NATIONALITY", <<"U", "S", "A">>, Some(98))>>

IdCardFields ==
  CommonFields \o
  <<Field("ID_NUMBER", <<"I", "D", "1", "2", "3", "4", "5", "6">>, Some(96)),
    Field("EXPIRATION_DATE", Date2030, Some(98))>>

ValidPassport == Document(PassportFields(Date2030))

ExpiredPassport == Document(PassportFields(Date2020))

ValidIdCard == Document(IdCardFields)

\* the instant of the runs, new Date(): 2024-03-29, in days since the epoch
Today == ParseDate(<<"2", "0", "2", "4", "-", "0", "3", "-", "2", "9">>)[1]

UserIds == {"user123"}

\* the (documentType, analyzer answer) pairs submitted to startVerification
Submissions ==
  {<<PASSPORT, TextractResponse(<<ValidPassport>>)>>,
   <<PASSPORT, TextractResponse(<<ExpiredPassport>>)>>,
   <<PASSPORT, TextractResponse(<<>>)>>,
   <<DRIVERS_LICENSE, TextractError("AWS Service Error")>>,
   <<DRIVERS_LICENSE, TextractResponse(<<ValidPassport>>)>>,
   <<ID_CARD, TextractResponse(<<ValidIdCard>>)>>}

Face(eyesOpen, brightness, sharpness, pitch, roll, yaw, sunglasses) ==
  [EyesOpen |-> eyesOpen,
   Quality |-> Some([Brightness |-> brightness, Sharpness |-> sharpness]),
   Pose |-> Some([Pitch |-> pitch, Roll |-> roll, Yaw |-> yaw]),
   Sunglasses |-> sunglasses]

GoodFace == Face(Some(99), Some(95), Some(93), Some(2), Some(1), Some(3), Some(FALSE))

PoorFace == Face(Some(95), Some(30), Some(25), Some(30), Some(25), Some(35), Some(TRUE))

\* the analyzer's answers to the liveness query on the selfie
LivenessResponses ==
  {DetectFacesResponse(<<GoodFace>>),
   DetectFacesResponse(<<PoorFace>>),
   DetectFacesResponse(<<>>),
   DetectFacesResponse(<<GoodFace, PoorFace>>),
   DetectFacesError("AWS Service Error")}

\* the analyzer's answers to the quality query on the document face, which
\* verifyFace passes as an empty buffer
DocumentFaceResponses ==
  {DetectFacesResponse(<<GoodFace>>),
   DetectFacesError("AWS Service Error")}

\* the analyzer's answers to the quality query on the selfie
SelfieFaceResponses ==
  {DetectFacesResponse(<<GoodFace>>),
   DetectFacesResponse(<<PoorFace>>)}

Match(similarity) == [Similarity |-> Some(similarity), Face |-> GoodFace]

\* the analyzer's answers to the comparison
Comparisons ==
  {CompareFacesResponse(<<Match(95)>>, 0),
   CompareFacesResponse(<<Match(85)>>, 0),
   CompareFacesResponse(<<>>, 1)}

\* ------------------------------------------------------------------------
\* State machine
\* ------------------------------------------------------------------------

VARIABLES
  store,         \* the repository: store[id] is the persisted entity of id
  documentStep,  \* documentStep[id]: what verifyDocument answered for id
  faceCalls,     \* number of verifyFace calls that found their record
  lastCall,      \* the last handler run: its arguments, steps and outcome
  stepCall,      \* a direct call of a step service (Null when there is none):
                 \* its arguments and, once it ran, what it computed
  requests       \* the handler runs in flight when requests overlap: for each
                 \* its arguments, its position and its copy of the entity

vars == <<store, documentStep, faceCalls, lastCall, stepCall, requests>>

Call(op, verificationId, document, liveness, faceMatch, outcome) ==
  [op |-> op, verificationId |-> verificationId, document |-> document,
   liveness |-> liveness, faceMatch |-> faceMatch, outcome |-> outcome]

\* the ids a caller may name: those stored and one the store does not hold
Ids == 1..(Len(store) + 1)

Exists(verificationId) == verificationId \in DOMAIN store

\* the id the store generates for a new row
GeneratedId == Len(store) + 1

\* variant: the new entity takes the place of the last row
InsertOverwriting(verification) ==
  IF store = <<>> THEN <<verification>>
  ELSE [store EXCEPT ![Len(store)] = verification]

\* repository.save of an entity that has no id yet: a new row
Insert(verification) == Append(store, verification)

\* variant: only the columns that are not null in the entity are written
SaveNonNullColumns(verification) ==
  LET row == store[verification.id]
  IN [store EXCEPT ![verification.id] =
        [verification EXCEPT
           !.documentData = IF @ = Null THEN row.documentData ELSE @,
           !.confidenceScore = IF @ = Null THEN row.confidenceScore ELSE @,
           !.faceMatchResult = IF @ = Null THEN row.faceMatchResult ELSE @,
           !.failureReason = IF @ = Null THEN row.failureReason ELSE @]]

\* repository.save of an entity that has an id: the row of that id
Save(verification) == [store EXCEPT ![verification.id] = verification]

\* the store after a handler run: the last entity it saved, if it saved one
Persist(outcome) == IF outcome.saved = Null THEN store ELSE Save(outcome.saved[1])

CallsLeft == Len(store) + faceCalls < MaxCalls

Init ==
  /\ store = <<>>
  /\ documentStep = <<>>
  /\ faceCalls = 0
  /\ lastCall = Call("none", Null, Null, Null, Null, Outcome(Null, <<>>, Null, Null))
  /\ stepCall = Null
  /\ requests = <<>>

\* what the document step answers to each submission: the document type
\* paired with the result or the exception of verifyDocument
DocumentOutcomes ==
  {<<submission[1], verifyDocument(submission[1], submission[2], Today)>> :
     submission \in Submissions}

\* what detectLiveness answers to each selfie
LivenessOutcomes == {detectLiveness(live) : live \in LivenessResponses}

\* what verifyFaceMatch answers to each document image, selfie and comparison
FaceMatchOutcomes ==
  {verifyFaceMatch(documentFace, selfieFace, comparison) :
     documentFace \in DocumentFaceResponses, selfieFace \in SelfieFaceResponses,
     comparison \in Comparisons}

\* startVerification with the answer of the document step
StartWith(userId, documentType, documentOutcome) ==
  LET id == Len(store) + 1
      outcome == startVerification(id, userId, documentType, documentOutcome)
  IN /\ CallsLeft
     /\ store' = Append(store, outcome.saved[1])
     /\ documentStep' = Append(documentStep, documentOutcome)
     /\ lastCall' = Call("startVerification", Some(id), Some(documentOutcome),
                         Null, Null, outcome)
     /\ UNCHANGED <<faceCalls, stepCall, requests>>

\* POST /verification/document
Start ==
  \E userId \in UserIds, submitted \in DocumentOutcomes :
    StartWith(userId, submitted[1], submitted[2])

\* whether the handler run made the collaborator call
Called(outcome, name) == \E i \in DOMAIN outcome.calls : outcome.calls[i] = name

\* verifyFace on a stored record with the answers of the face step; the
\* call records the answer of verifyFaceMatch only if it was invoked
ContinueWith(verificationId, livenessOutcome, faceMatchOutcome) ==
  LET outcome == verifyFace(store[verificationId], livenessOutcome, faceMatchOutcome)
  IN /\ CallsLeft
     /\ store' = Save(outcome.saved[1])
     /\ faceCalls' = faceCalls + 1
     /\ lastCall' = Call("verifyFace", Some(verificationId), Null,
                         Some(livenessOutcome),
                         IF Called(outcome, "verifyFaceMatch")
                         THEN Some(faceMatchOutcome) ELSE Null,
                         outcome)
     /\ UNCHANGED <<documentStep, stepCall, requests>>

\* POST /verification/:verificationId/face on a stored record
ContinueWithFace ==
  \E verificationId \in DOMAIN store, livenessOutcome \in LivenessOutcomes,
     faceMatchOutcome \in FaceMatchOutcomes :
    ContinueWith(verificationId, livenessOutcome, faceMatchOutcome)

\* POST /verification/:verificationId/face on an id the store does not hold
ContinueWithFaceNotFound ==
  \E verificationId \in Ids :
    /\ ~Exists(verificationId)
    /\ lastCall' = Call("verifyFace", Some(verificationId), Null, Null, Null, NotFound)
    /\ store' = Persist(NotFound)
    /\ UNCHANGED <<documentStep, faceCalls, stepCall, requests>>

\* GET /verification/:verificationId
GetStatus ==
  \E verificationId \in Ids :
    LET outcome == IF Exists(verificationId)
                   THEN getVerificationStatus(store[verificationId])
                   ELSE NotFound
    IN /\ lastCall' = Call("getVerificationStatus", Some(verificationId), Null, Null, Null,
                           outcome)
       /\ store' = Persist(outcome)
       /\ UNCHANGED <<documentStep, faceCalls, stepCall, requests>>

Next ==
  \/ Start
  \/ ContinueWithFace
  \/ ContinueWithFaceNotFound
  \/ GetStatus

Spec == Init /\ [][Next]_vars

\* ------------------------------------------------------------------------
\* The orchestrator over an injected document step
\* ------------------------------------------------------------------------

\* The results the orchestrator's own test gives the DocumentVerificationService
\* it injects: verifyDocument resolves with isValid true or false
InjectedDocumentResults ==
  {[isValid |-> TRUE,
    extractedData |-> [documentNumber |-> <<"A", "B", "C", "1", "2", "3">>],
    confidenceScore |-> Frac(95, 100)],
   [isValid |-> FALSE,
    extractedData |-> <<>>,
    confidenceScore |-> Frac(0, 1)]}

\* what the injected document step answers
InjectedDocumentOutcomes ==
  {Returned(documentResult) : documentResult \in InjectedDocumentResults}

\* POST /verification/document with an injected document step
StartInjected ==
  \E userId \in UserIds, documentOutcome \in InjectedDocumentOutcomes :
    StartWith(userId, PASSPORT, documentOutcome)

NextInjected ==
  \/ Next
  \/ StartInjected

SpecInjected == Init /\ [][NextInjected]_vars

\* ------------------------------------------------------------------------
\* The document step called directly
\* ------------------------------------------------------------------------

\* How the analyzer reports one field of the document: not at all (Null), or
\* with a value text and a confidence, either of which may be absent
Report(text, confidence) == Some([text |-> text, confidence |-> confidence])

\* the IdentityDocumentFields entry of a report (none when not reported)
Reported(type, report) ==
  IF report = Null THEN <<>>
  ELSE <<Field(type, report[1].text, report[1].confidence)>>

FirstNameReports ==
  {Report(<<"J", "o", "h", "n">>, Some(99)),
   Report(<<"J", "o", "h", "n">>, Null),
   Report(<<"J", "o", "h", "n">>, Some(0)),
   Report(<<>>, Some(99)),
   Null}

LastNameReports == {Report(<<"D", "o", "e">>, Some(99)), Null}

DateOfBirthReports ==
  {Report(<<"1", "9", "8", "0", "-", "0", "1", "-", "0", "1">>, Some(98)), Null}

\* expiration dates around the instant of the run (2024-03-29), a year alone,
\* and a text that is no date
ExpirationReports ==
  {Report(Date2030, Some(98)),
   Report(Date2020, Some(98)),
   Report(<<"2", "0", "2", "4", "-", "0", "3", "-", "2", "8">>, Some(98)),
   Report(<<"2", "0", "2", "4", "-", "0", "3", "-", "2", "9">>, Some(98)),
   Report(<<"2", "0", "2", "0">>, Some(98)),
   Report(<<"N", "/", "A">>, Some(98)),
   Null}

\* document numbers of 4, 5, 6, 9 and 10 characters, one in lower case and
\* one with a character outside A-Z and 0-9
NumberReports ==
  {Report(<<"A", "B", "1", "2">>, Some(97)),
   Report(<<"A", "B", "1", "2", "3">>, Some(97)),
   Report(<<"A", "B", "1", "2", "3", "4">>, Some(97)),
   Report(<<"A", "B", "1", "2", "3", "4", "5", "6", "7">>, Some(97)),
   Report(<<"A", "B", "1", "2", "3", "4", "5", "6", "7", "8">>, Some(97)),
   Report(<<"a", "b", "1", "2", "3", "4">>, Some(97)),
   Report(<<"A", "B", "-", "1", "2", "3">>, Some(97)),
   Null}

\* the number field and the region field each kind of document carries
DocumentKinds ==
  {[number |-> "PASSPORT_NUMBER", region |-> Some("NATIONALITY")],
   [number |-> "LICENSE_NUMBER", region |-> Some("STATE")],
   [number |-> "ID_NUMBER", region |-> Null]}

RegionReports(kind) ==
  IF kind.region = Null THEN {Null}
  ELSE {Report(<<"U", "S", "A">>, Some(98)), Null}

\* the documents the analyzer finds in the images submitted
AnalyzedDocuments ==
  {Document(Reported("FIRST_NAME", firstName)
            \o Reported("LAST_NAME", lastName)
            \o Reported("DATE_OF_BIRTH", dateOfBirth)
            \o Reported(kindRegion[1].number, number)
            \o Reported("EXPIRATION_DATE", expiration)
            \o (IF kindRegion[2] = Null THEN <<>>
                ELSE Reported(kindRegion[1].region[1], kindRegion[2]))) :
     firstName \in FirstNameReports, lastName \in LastNameReports,
     dateOfBirth \in DateOfBirthReports, number \in NumberReports,
     expiration \in ExpirationReports,
     kindRegion \in UNION {{<<kind, region>> : region \in RegionReports(kind)} :
                             kind \in DocumentKinds}}

\* the documentType argument: the three of the enum and a value outside it,
\* which the switches of the service send to their default branch
DocumentTypeArguments == DocumentType \cup {"residence_permit"}

\* the calls of verifyDocument(documentType, documentBuffer) at the instant
\* `now`, before they ran
DocumentStepCalls ==
  {[op |-> "verifyDocument", documentType |-> documentType,
    document |-> document, now |-> Today, result |-> Null] :
     documentType \in DocumentTypeArguments, document \in AnalyzedDocuments}

\* what a call of verifyDocument computes on the way to its outcome
DocumentStepResult(call) ==
  LET fields == parseDocumentFields(call.document)
  IN [requiredFields |-> getRequiredFields(call.documentType),
      fields |-> fields,
      validation |-> validateDocumentAuthenticity(call.documentType, fields, call.now),
      outcome |-> verifyDocument(call.documentType,
                                 TextractResponse(<<call.document>>), call.now)]

InitDocument ==
  /\ store = <<>>
  /\ documentStep = <<>>
  /\ faceCalls = 0
  /\ lastCall = Call("none", Null, Null, Null, Null, Outcome(Null, <<>>, Null, Null))
  /\ stepCall \in {Some(call) : call \in DocumentStepCalls}
  /\ requests = <<>>

\* DocumentVerificationService.verifyDocument runs
VerifyDocumentStep ==
  /\ stepCall # Null
  /\ stepCall[1].result = Null
  /\ stepCall' = Some([stepCall[1] EXCEPT !.result = Some(DocumentStepResult(stepCall[1]))])
  /\ UNCHANGED <<store, documentStep, faceCalls, lastCall, requests>>

NextDocument == VerifyDocumentStep

SpecDocument == InitDocument /\ [][NextDocument]_vars

\* ------------------------------------------------------------------------
\* The face step on its own: FaceVerificationService called directly
\* ------------------------------------------------------------------------

\* what the analyzer reports on a detected face: EyesOpen.Confidence,
\* Quality.Brightness and Quality.Sharpness at and around the thresholds and
\* at 0, poses at and beyond the largest angle, Sunglasses.Value
EyesOpenReports == {Null, Some(0), Some(60), Some(100)}

QualityValues == {Null, Some(0), Some(49), Some(50), Some(95)}

QualityReports ==
  {Null} \cup {Some([Brightness |-> brightness, Sharpness |-> sharpness]) :
                 brightness \in QualityValues, sharpness \in QualityValues}

PoseOf(pitch, roll, yaw) ==
  Some([Pitch |-> Some(pitch), Roll |-> Some(roll), Yaw |-> Some(yaw)])

PoseReports ==
  {Null, PoseOf(2, 1, 3), PoseOf(20, -20, 20), PoseOf(21, 0, 0),
   PoseOf(0, -21, 0), PoseOf(0, 0, 21), PoseOf(30, 25, 35)}

SunglassesReports == {Null, Some(TRUE), Some(FALSE)}

DetectedFaces ==
  {[EyesOpen |-> eyesOpen, Quality |-> quality, Pose |-> pose,
    Sunglasses |-> sunglasses] :
     eyesOpen \in EyesOpenReports, quality \in QualityReports,
     pose \in PoseReports, sunglasses \in SunglassesReports}

\* the analyzer's answers to DetectFaces on one image
FaceStepResponses ==
  {DetectFacesResponse(<<face>>) : face \in DetectedFaces}
    \cup {DetectFacesResponse(<<>>),
          DetectFacesResponse(<<GoodFace, GoodFace>>),
          DetectFacesResponse(<<GoodFace, PoorFace>>),
          DetectFacesError("AWS Service Error"),
          DetectFacesError("Request timed out")}

BadPoseFace == Face(Some(99), Some(95), Some(93), Some(30), Some(25), Some(35), Some(FALSE))

\* the analyzer's answers to the quality query of a pre-check
PreCheckResponses ==
  {DetectFacesResponse(<<GoodFace>>),
   DetectFacesResponse(<<PoorFace>>),
   DetectFacesResponse(<<BadPoseFace>>),
   DetectFacesResponse(<<>>),
   DetectFacesResponse(<<GoodFace, GoodFace>>),
   DetectFacesError("AWS Service Error")}

\* the analyzer's answers to CompareFaces: one match, several matches in
\* descending and in ascending order of similarity, none, a failure
FaceComparisons ==
  {CompareFacesResponse(<<Match(95)>>, 0),
   CompareFacesResponse(<<Match(90)>>, 0),
   CompareFacesResponse(<<Match(85)>>, 0),
   CompareFacesResponse(<<Match(95), Match(85)>>, 0),
   CompareFacesResponse(<<Match(85), Match(95)>>, 0),
   CompareFacesResponse(<<Match(92), Match(97), Match(91)>>, 1),
   CompareFacesResponse(<<>>, 1),
   CompareFacesError("AWS Service Error")}

\* the calls of detectFaceQuality(imageBuffer), detectLiveness(selfieBuffer)
\* and verifyFaceMatch(documentFaceBuffer, selfieFaceBuffer) before they ran,
\* each with the answers the analyzer is going to give
FaceStepCalls ==
  {[op |-> "detectFaceQuality", response |-> response, result |-> Null] :
     response \in FaceStepResponses}
    \cup {[op |-> "detectLiveness", response |-> response, result |-> Null] :
            response \in FaceStepResponses}
    \cup {[op |-> "verifyFaceMatch", documentResponse |-> documentResponse,
           selfieResponse |-> selfieResponse, comparison |-> comparison,
           pc |-> "start", issued |-> <<>>, settled |-> <<>>,
           documentFaceQuality |-> Null, selfieFaceQuality |-> Null,
           compared |-> 0, result |-> Null] :
            documentResponse \in PreCheckResponses,
            selfieResponse \in PreCheckResponses,
            comparison \in FaceComparisons}

InitFace ==
  /\ store = <<>>
  /\ documentStep = <<>>
  /\ faceCalls = 0
  /\ lastCall = Call("none", Null, Null, Null, Null, Outcome(Null, <<>>, Null, Null))
  /\ stepCall \in {Some(call) : call \in FaceStepCalls}
  /\ requests = <<>>

FaceStepAt(op) == stepCall # Null /\ stepCall[1].op = op

\* FaceVerificationService.detectFaceQuality runs: one analyzer call
DetectFaceQualityStep ==
  /\ FaceStepAt("detectFaceQuality")
  /\ stepCall[1].result = Null
  /\ stepCall' = Some([stepCall[1] EXCEPT
                         !.result = Some(detectFaceQuality(stepCall[1].response))])
  /\ UNCHANGED <<store, documentStep, faceCalls, lastCall, requests>>

\* FaceVerificationService.detectLiveness runs: one analyzer call
DetectLivenessStep ==
  /\ FaceStepAt("detectLiveness")
  /\ stepCall[1].result = Null
  /\ stepCall' = Some([stepCall[1] EXCEPT
                         !.result = Some(detectLiveness(stepCall[1].response))])
  /\ UNCHANGED <<store, documentStep, faceCalls, lastCall, requests>>

\* verifyFaceMatch starts: Promise.all evaluates its array, which starts
\* detectFaceQuality on the document face and then on the selfie
IssueQualityChecks ==
  /\ FaceStepAt("verifyFaceMatch")
  /\ stepCall[1].pc = "start"
  /\ stepCall' = Some([stepCall[1] EXCEPT !.pc = "checking",
                                          !.issued = <<"document", "selfie">>])
  /\ UNCHANGED <<store, documentStep, faceCalls, lastCall, requests>>

\* the pre-check of the document face settles (it never rejects)
DocumentQualitySettles ==
  /\ FaceStepAt("verifyFaceMatch")
  /\ stepCall[1].pc = "checking"
  /\ stepCall[1].documentFaceQuality = Null
  /\ stepCall' = Some([stepCall[1] EXCEPT
                         !.documentFaceQuality =
                            Some(detectFaceQuality(stepCall[1].documentResponse)),
                         !.settled = @ \o <<"document">>])
  /\ UNCHANGED <<store, documentStep, faceCalls, lastCall, requests>>

\* the pre-check of the selfie settles (it never rejects)
SelfieQualitySettles ==
  /\ FaceStepAt("verifyFaceMatch")
  /\ stepCall[1].pc = "checking"
  /\ stepCall[1].selfieFaceQuality = Null
  /\ stepCall' = Some([stepCall[1] EXCEPT
                         !.selfieFaceQuality =
                            Some(detectFaceQuality(stepCall[1].selfieResponse)),
                         !.settled = @ \o <<"selfie">>])
  /\ UNCHANGED <<store, documentStep, faceCalls, lastCall, requests>>

\* Promise.all has resolved: verifyFaceMatch throws on a rejected pre-check
\* or sends the comparison to the analyzer
QualityChecksResolved ==
  /\ FaceStepAt("verifyFaceMatch")
  /\ stepCall[1].pc = "checking"
  /\ stepCall[1].documentFaceQuality # Null
  /\ stepCall[1].selfieFaceQuality # Null
  /\ LET issue == FaceQualityIssue(stepCall[1].documentFaceQuality[1],
                                   stepCall[1].selfieFaceQuality[1])
     IN stepCall' = Some(IF issue # Null
                         THEN [stepCall[1] EXCEPT !.pc = "done", !.result = issue]
                         ELSE [stepCall[1] EXCEPT !.pc = "comparing",
                                                  !.compared = @ + 1])
  /\ UNCHANGED <<store, documentStep, faceCalls, lastCall, requests>>

\* the analyzer answers the comparison and verifyFaceMatch settles
ComparisonSettles ==
  /\ FaceStepAt("verifyFaceMatch")
  /\ stepCall[1].pc = "comparing"
  /\ stepCall' = Some([stepCall[1] EXCEPT
                         !.pc = "done",
                         !.result = Some(FaceMatchOf(stepCall[1].comparison))])
  /\ UNCHANGED <<store, documentStep, faceCalls, lastCall, requests>>

NextFace ==
  \/ DetectFaceQualityStep
  \/ DetectLivenessStep
  \/ IssueQualityChecks
  \/ DocumentQualitySettles
  \/ SelfieQualitySettles
  \/ QualityChecksResolved
  \/ ComparisonSettles

SpecFace == InitFace /\ [][NextFace]_vars

\* ------------------------------------------------------------------------
\* RequestIdMiddleware.use on a request, a response and a next callback
\* ------------------------------------------------------------------------

\* the header names under which a request object may carry a request id
RequestIdNames == {"x-request-id", "X-REQUEST-ID", "X-Request-Id"}

\* the values it carries; "" is an empty header
IncomingIds == {"existing-id", "client-7", ""}

OtherHeaders == {"accept", "authorization", "content-type"}

\* req.headers: other headers, with or without a request id under one name
IncomingHeaders ==
  {[name \in others |-> "*"] : others \in SUBSET OtherHeaders}
    \cup {[name \in others \cup {idName} |-> IF name = idName THEN id ELSE "*"] :
            others \in SUBSET OtherHeaders, idName \in RequestIdNames,
            id \in IncomingIds}

\* what crypto.randomUUID() may return
GeneratedIds == {"uuid-1", "uuid-2"}

\* SecurityService.generateRequestId
generateRequestId(uuid) == uuid

\* the calls of use(req, res, next) before they ran: `received` keeps the
\* headers as they came in, `generated` lists the ids generated, `next`
\* counts the calls of next()
MiddlewareCalls ==
  {[op |-> "use", received |-> headers, req |-> [headers |-> headers],
    res |-> [headers |-> <<>>], generated |-> <<>>, next |-> 0,
    done |-> FALSE] : headers \in IncomingHeaders}

InitRequestId ==
  /\ store = <<>>
  /\ documentStep = <<>>
  /\ faceCalls = 0
  /\ lastCall = Call("none", Null, Null, Null, Null, Outcome(Null, <<>>, Null, Null))
  /\ stepCall \in {Some(call) : call \in MiddlewareCalls}
  /\ requests = <<>>

\* headers[name] on a plain object: the property of exactly that name, ""
\* standing for undefined (both are falsy)
Lookup(headers, name) ==
  IF name \in DOMAIN headers THEN headers[name] ELSE ""

\* headers[name] = value
SetHeader(headers, name, value) ==
  [n \in DOMAIN headers \cup {name} |-> IF n = name THEN value ELSE headers[n]]

\* RequestIdMiddleware.use; `uuid` is what randomUUID returns if it is called
use(call, uuid) ==
  LET incoming == Lookup(call.req.headers, "x-request-id")
      requestId == IF incoming # "" THEN incoming ELSE generateRequestId(uuid)
  IN [call EXCEPT
        !.generated = IF incoming # "" THEN @ ELSE @ \o <<requestId>>,
        !.req = [headers |-> SetHeader(call.req.headers, "x-request-id", requestId)],
        !.res = [headers |-> SetHeader(call.res.headers, "X-Request-ID", requestId)],
        !.next = @ + 1,
        !.done = TRUE]

\* the middleware runs on the request
Use ==
  /\ stepCall # Null
  /\ stepCall[1].op = "use"
  /\ ~stepCall[1].done
  /\ \E uuid \in GeneratedIds : stepCall' = Some(use(stepCall[1], uuid))
  /\ UNCHANGED <<store, documentStep, faceCalls, lastCall, requests>>

NextRequestId == Use

SpecRequestId == InitRequestId /\ [][NextRequestId]_vars

\* ------------------------------------------------------------------------
\* Overlapping requests: each handler run advances from one await to the
\* next, on its own copy of the entity
\* ------------------------------------------------------------------------

\* the two records the store holds when the requests arrive, both left in
\* progress by a successful document step
StoredRecords ==
  <<startVerification(1, "user123", PASSPORT,
                      verifyDocument(PASSPORT, TextractResponse(<<ValidPassport>>), Today)).saved[1],
    startVerification(2, "user456", ID_CARD,
                      verifyDocument(ID_CARD, TextractResponse(<<ValidIdCard>>), Today)).saved[1]>>

\* a handler run before it starts
Request(op, userId, documentType, documentOutcome, verificationId, livenessOutcome, faceMatchOutcome, pc) ==
  [op |-> op, userId |-> userId, documentType |-> documentType,
   documentOutcome |-> documentOutcome, verificationId |-> verificationId,
   livenessOutcome |-> livenessOutcome, faceMatchOutcome |-> faceMatchOutcome,
   pc |-> pc, verification |-> Null, read |-> Null, readFresh |-> FALSE,
   saves |-> 0, thrown |-> Null, returned |-> Null]

\* the startVerification requests: a valid and an expired passport
StartRequests ==
  {Request("startVerification", "user789", PASSPORT,
           Some(verifyDocument(PASSPORT, TextractResponse(<<document>>), Today)),
           Null, Null, Null, "create") :
     document \in {ValidPassport, ExpiredPassport}}

\* what detectLiveness answers: live, not live, an analyzer failure
OverlapLivenessOutcomes ==
  {detectLiveness(response) :
     response \in {DetectFacesResponse(<<GoodFace>>),
                   DetectFacesResponse(<<PoorFace>>),
                   DetectFacesError("AWS Service Error")}}

\* what verifyFaceMatch answers: a match, no match, a rejected document face
OverlapFaceMatchOutcomes ==
  {verifyFaceMatch(DetectFacesResponse(<<GoodFace>>), DetectFacesResponse(<<GoodFace>>),
                   CompareFacesResponse(<<Match(95)>>, 0)),
   verifyFaceMatch(DetectFacesResponse(<<GoodFace>>), DetectFacesResponse(<<GoodFace>>),
                   CompareFacesResponse(<<Match(85)>>, 0)),
   verifyFaceMatch(DetectFacesError("AWS Service Error"), DetectFacesResponse(<<GoodFace>>),
                   CompareFacesResponse(<<Match(95)>>, 0))}

\* the verifyFace requests: on each stored record with each pair of answers
\* of the face step, and on an id the store does not hold
FaceRequests ==
  {Request("verifyFace", "", "", Null, Some(verificationId),
           Some(livenessOutcome), Some(faceMatchOutcome), "findOne") :
     verificationId \in DOMAIN StoredRecords,
     livenessOutcome \in OverlapLivenessOutcomes,
     faceMatchOutcome \in OverlapFaceMatchOutcomes}
    \cup {Request("verifyFace", "", "", Null, Some(Len(StoredRecords) + 2),
                  Some(detectLiveness(DetectFacesResponse(<<GoodFace>>))),
                  Some(verifyFaceMatch(DetectFacesResponse(<<GoodFace>>),
                                       DetectFacesResponse(<<GoodFace>>),
                                       CompareFacesResponse(<<Match(95)>>, 0))),
                  "findOne")}

\* the pairs of requests whose handler runs overlap
OverlappingRequests ==
  {<<first, second>> : first \in StartRequests \cup FaceRequests,
                       second \in StartRequests \cup FaceRequests}

InitOverlap ==
  /\ store = StoredRecords
  /\ documentStep = <<>>
  /\ faceCalls = 0
  /\ lastCall = Call("none", Null, Null, Null, Null, Outcome(Null, <<>>, Null, Null))
  /\ stepCall = Null
  /\ requests \in OverlappingRequests

\* request i moves to `next`; the other requests keep their state
Moves(i, next) ==
  /\ requests' = [requests EXCEPT ![i] = next]
  /\ UNCHANGED <<documentStep, faceCalls, lastCall, stepCall>>

\* whether no other request on the same id has saved yet
NoWriteYet(i) ==
  \A j \in DOMAIN requests :
    (j # i /\ requests[j].verificationId = requests[i].verificationId)
      => requests[j].saves = 0

\* startVerification up to its first await: create() and the first save,
\* which inserts the row and gives the entity its id
StartCreates ==
  \E i \in DOMAIN requests :
  LET request == requests[i]
      verification == NewVerification(GeneratedId, request.userId, request.documentType)
  IN /\ request.op = "startVerification"
     /\ request.pc = "create"
     /\ store' = Insert(verification)
     /\ Moves(i, [request EXCEPT !.verificationId = Some(verification.id),
                                 !.verification = Some(verification),
                                 !.saves = @ + 1,
                                 !.pc = "verifyDocument"])

\* verifyDocument settles: startVerification updates its entity and calls
\* save, from the try block or from the catch block
StartDocumentAnswered ==
  \E i \in DOMAIN requests :
  LET request == requests[i]
      verification == request.verification[1]
      documentOutcome == request.documentOutcome[1]
  IN /\ request.op = "startVerification"
     /\ request.pc = "verifyDocument"
     /\ UNCHANGED store
     /\ Moves(i,
          IF documentOutcome.threw
          THEN [request EXCEPT
                  !.verification = Some(Fail(verification, documentOutcome.message)),
                  !.thrown = Some(documentOutcome.message),
                  !.pc = "saveCaught"]
          ELSE LET documentResult == documentOutcome.value[1]
                   withData == [verification EXCEPT
                                  !.documentData = Some(documentResult.extractedData),
                                  !.confidenceScore = Some(documentResult.confidenceScore)]
               IN IF ~documentResult.isValid
                  THEN [request EXCEPT
                          !.verification =
                             Some(Fail(withData, "Document verification failed")),
                          !.pc = "saveRejected"]
                  ELSE [request EXCEPT !.verification = Some(withData),
                                       !.pc = "saveReturned"])

\* verifyFace up to the answer of findOne: its own copy of the row, or
\* 'Verification not found'
FaceFindOne ==
  \E i \in DOMAIN requests :
  LET request == requests[i]
      verificationId == request.verificationId[1]
  IN /\ request.op = "verifyFace"
     /\ request.pc = "findOne"
     /\ UNCHANGED store
     /\ Moves(i,
          IF Exists(verificationId)
          THEN [request EXCEPT !.verification = Some(store[verificationId]),
                               !.read = Some(store[verificationId]),
                               !.readFresh = NoWriteYet(i),
                               !.pc = "detectLiveness"]
          ELSE [request EXCEPT !.thrown = NotFound.thrown, !.pc = "done"])

\* detectLiveness settles: verifyFace goes on to verifyFaceMatch, or updates
\* its entity and calls save
FaceLivenessAnswered ==
  \E i \in DOMAIN requests :
  LET request == requests[i]
      verification == request.verification[1]
      livenessOutcome == request.livenessOutcome[1]
  IN /\ request.op = "verifyFace"
     /\ request.pc = "detectLiveness"
     /\ UNCHANGED store
     /\ Moves(i,
          IF livenessOutcome.threw
          THEN [request EXCEPT
                  !.verification = Some(Fail(verification, livenessOutcome.message)),
                  !.thrown = Some(livenessOutcome.message),
                  !.pc = "saveCaught"]
          ELSE IF LivenessRejected(livenessOutcome.value[1])
          THEN [request EXCEPT
                  !.verification = Some(Fail(verification, "Liveness check failed")),
                  !.pc = "saveRejected"]
          ELSE [request EXCEPT !.pc = "verifyFaceMatch"])

\* verifyFaceMatch settles: verifyFace updates its entity and calls save
FaceMatchAnswered ==
  \E i \in DOMAIN requests :
  LET request == requests[i]
      verification == request.verification[1]
      faceMatchOutcome == request.faceMatchOutcome[1]
  IN /\ request.op = "verifyFace"
     /\ request.pc = "verifyFaceMatch"
     /\ UNCHANGED store
     /\ Moves(i,
          IF faceMatchOutcome.threw
          THEN [request EXCEPT
                  !.verification = Some(Fail(verification, faceMatchOutcome.message)),
                  !.thrown = Some(faceMatchOutcome.message),
                  !.pc = "saveCaught"]
          ELSE LET faceMatchResult == faceMatchOutcome.value[1]
                   withResult == [verification EXCEPT
                                    !.faceMatchResult = Some(faceMatchResult)]
               IN IF FaceMatchRejected(faceMatchResult)
                  THEN [request EXCEPT
                          !.verification = Some(Fail(withResult, "Face match failed")),
                          !.pc = "saveRejected"]
                  ELSE [request EXCEPT
                          !.verification = Some([withResult EXCEPT !.status = COMPLETED]),
                          !.pc = "saveReturned"])

\* a save of either handler settles: the row is written; after the save of
\* a rejection the handler throws into its catch block, which saves again;
\* after the other saves it throws to the caller or returns the entity
SaveSettles ==
  \E i \in DOMAIN requests :
  LET request == requests[i]
      verification == request.verification[1]
  IN /\ request.pc \in {"saveRejected", "saveCaught", "saveReturned"}
     /\ store' = Save(verification)
     /\ Moves(i,
          CASE request.pc = "saveRejected" ->
                 LET error == BadRequestException(verification.failureReason[1])
                 IN [request EXCEPT !.verification = Some(Fail(verification, error)),
                                    !.thrown = Some(error),
                                    !.saves = @ + 1,
                                    !.pc = "saveCaught"]
            [] request.pc = "saveCaught" ->
                 [request EXCEPT !.saves = @ + 1, !.pc = "done"]
            [] request.pc = "saveReturned" ->
                 [request EXCEPT !.returned = Some(verification),
                                 !.saves = @ + 1,
                                 !.pc = "done"])

NextOverlap ==
  \/ StartCreates
  \/ StartDocumentAnswered
  \/ FaceFindOne
  \/ FaceLivenessAnswered
  \/ FaceMatchAnswered
  \/ SaveSettles

SpecOverlap == InitOverlap /\ [][NextOverlap]_vars

\* ------------------------------------------------------------------------
\* Properties
\* ------------------------------------------------------------------------

\* the Document Step of the record succeeded: verifyDocument returned a
\* valid result
DocumentStepSucceeded(id) ==
  ~documentStep[id].threw /\ documentStep[id].value[1].isValid

\* the record holds what its successful Document Step extracted
DocumentDataValidated(id) ==
  /\ DocumentStepSucceeded(id)
  /\ store[id].documentData = Some(documentStep[id].value[1].extractedData)

Terminal(status) == status \in {COMPLETED, FAILED}

\* the id the last call was about
LastId == lastCall.verificationId[1]

\* the last call was verifyFace and found its record
FaceCallOnRecord == lastCall.op = "verifyFace" /\ lastCall.liveness # Null

\* C1: a completed record went through a successful Document Step
\* (documentData populated and validated) and has a faceMatchResult with
\* isMatch true; no record whose document step failed is ever completed.
C1_CompletedWentThroughBothSteps ==
  \A id \in DOMAIN store :
    store[id].status = COMPLETED =>
      /\ DocumentDataValidated(id)
      /\ store[id].faceMatchResult # Null
      /\ store[id].faceMatchResult[1].isMatch

\* C2: once the persisted status of a record is completed or failed, it is
\* never again pending or in_progress.
C2_TerminalNeverReopened ==
  [][\A id \in DOMAIN store :
       Terminal(store[id].status) =>
         store'[id].status \notin {PENDING, IN_PROGRESS}]_vars

\* C2 witness: verifyFace ran on a record that Start had marked failed, and
\* the record is terminal (completed) afterwards
C2_Witness ==
  /\ FaceCallOnRecord
  /\ documentStep[LastId].threw
  /\ store[LastId].status = COMPLETED

\* C3: a record already failed is never revisited: a later verifyFace on
\* its id leaves status failed and failureReason and faceMatchResult
\* unchanged.
C3_FailedNeverRevisited ==
  [][\A id \in DOMAIN store :
       store[id].status = FAILED =>
         /\ store'[id].status = FAILED
         /\ store'[id].failureReason = store[id].failureReason
         /\ store'[id].faceMatchResult = store[id].faceMatchResult]_vars

\* C4: the only status transitions of a persisted record are
\* in_progress -> completed and in_progress -> failed; a completed record
\* stays completed.
C4_MonotonicTransitions ==
  [][\A id \in DOMAIN store :
       /\ store'[id].status # store[id].status =>
            store[id].status = IN_PROGRESS /\ Terminal(store'[id].status)
       /\ store[id].status = COMPLETED => store'[id].status = COMPLETED]_vars

\* C5: a record with a faceMatchResult has documentData that its Document
\* Step populated and validated.
C5_FaceResultOnlyAfterDocument ==
  \A id \in DOMAIN store :
    store[id].faceMatchResult # Null => DocumentDataValidated(id)

\* C5 and C6 concern the records of DOMAIN store: a record is in the store
\* of a state exactly when the Document Step of its Start has finished.

\* C6: after the Document Step of a record has finished, no later operation
\* changes the record's documentData or confidenceScore.
C6_DocumentDataFrozen ==
  [][\A id \in DOMAIN store :
       /\ store'[id].documentData = store[id].documentData
       /\ store'[id].confidenceScore = store[id].confidenceScore]_vars

\* C6 witness: verifyFace failed a record that holds extracted document data
C6_Witness ==
  /\ FaceCallOnRecord
  /\ store[LastId].status = FAILED
  /\ lastCall.outcome.thrown # Null
  /\ DocumentDataValidated(LastId)

\* the last call was startVerification and its Document Step succeeded
StartSucceeded ==
  /\ lastCall.op = "startVerification"
  /\ ~lastCall.document[1].threw
  /\ lastCall.document[1].value[1].isValid

\* C7: when the Document Step succeeds, startVerification persists and
\* returns a new record with status in_progress whose documentData and
\* confidenceScore are the step's extracted fields and score; Start alone
\* never leaves a record completed.
C7_StartSuccessStaysInProgress ==
  lastCall.op = "startVerification" =>
    /\ store[LastId].status # COMPLETED
    /\ StartSucceeded =>
         /\ LastId = Len(store)
         /\ store[LastId].status = IN_PROGRESS
         /\ store[LastId].documentData =
              Some(lastCall.document[1].value[1].extractedData)
         /\ store[LastId].confidenceScore =
              Some(lastCall.document[1].value[1].confidenceScore)
         /\ lastCall.outcome.thrown = Null
         /\ lastCall.outcome.returned = Some(store[LastId])

\* C7 witness: Start of a valid passport returned an in_progress record
\* with the passport's fields and the mean of their confidences
C7_Witness ==
  /\ StartSucceeded
  /\ store[LastId].status = IN_PROGRESS
  /\ store[LastId].documentData # Null
  /\ "passport_number" \in DOMAIN store[LastId].documentData[1]
  /\ store[LastId].confidenceScore = Some(<<589, 6>>)

\* C8: when the Document Step fails (rule violation, no document found, or
\* analyzer exception), startVerification persists the record failed with
\* failureReason equal to the step's error message, and the error thrown
\* to the caller carries that same message.
C8_StartFailureReasonIsStepMessage ==
  (lastCall.op = "startVerification" /\ lastCall.document[1].threw) =>
    /\ store[LastId].status = FAILED
    /\ store[LastId].failureReason = Some(lastCall.document[1].message)
    /\ lastCall.outcome.thrown = Some(lastCall.document[1].message)
    /\ lastCall.outcome.returned = Null

\* C8 witness: Start of an expired passport failed with the rule's reason
C8_Witness ==
  /\ lastCall.op = "startVerification"
  /\ lastCall.document[1].threw
  /\ store[LastId].status = FAILED
  /\ store[LastId].failureReason = Some("Document has expired")
  /\ lastCall.outcome.thrown = Some("Document has expired")

\* C9: a record that startVerification marks failed, also when the document
\* step returns a result with isValid false, is persisted with documentData
\* and confidenceScore still null.
C9_FailedStartStoresNoData ==
  (lastCall.op = "startVerification" /\ store[LastId].status = FAILED) =>
    /\ store[LastId].documentData = Null
    /\ store[LastId].confidenceScore = Null

\* C10: verifyFace runs detectLiveness before any other step; when
\* detectLiveness reports isLive false, the record is persisted failed with
\* failureReason "Liveness check failed", the caller receives that error,
\* and verifyFaceMatch is not invoked in that call.
C10_LivenessRejectionSkipsFaceMatch ==
  FaceCallOnRecord =>
    /\ lastCall.outcome.calls[1] = "findOne"
    /\ lastCall.outcome.calls[2] = "detectLiveness"
    /\ (~lastCall.liveness[1].threw /\ ~lastCall.liveness[1].value[1].isLive) =>
         /\ store[LastId].status = FAILED
         /\ store[LastId].failureReason = Some("Liveness check failed")
         /\ lastCall.outcome.thrown = Some("Liveness check failed")
         /\ ~Called(lastCall.outcome, "verifyFaceMatch")
         /\ lastCall.faceMatch = Null

\* C10 witness: a selfie of poor quality was rejected by the liveness check
C10_Witness ==
  /\ FaceCallOnRecord
  /\ ~lastCall.liveness[1].threw
  /\ ~lastCall.liveness[1].value[1].isLive
  /\ store[LastId].failureReason = Some("Liveness check failed")
  /\ lastCall.outcome.thrown = Some("Liveness check failed")

\* the last call was verifyFace, its liveness step passed and verifyFaceMatch
\* returned a result
FaceMatchReturned ==
  /\ FaceCallOnRecord
  /\ ~lastCall.liveness[1].threw
  /\ lastCall.liveness[1].value[1].isLive
  /\ lastCall.faceMatch # Null
  /\ ~lastCall.faceMatch[1].threw

\* C11: when liveness passes and verifyFaceMatch returns a result, verifyFace
\* stores that result as faceMatchResult; if isMatch is false the record is
\* persisted failed with failureReason "Face match failed" and that error is
\* thrown; if isMatch is true the record is persisted completed and returned.
C11_FaceMatchResultDecides ==
  FaceMatchReturned =>
    LET faceMatchResult == lastCall.faceMatch[1].value[1]
    IN /\ store[LastId].faceMatchResult = Some(faceMatchResult)
       /\ lastCall.outcome.saved = Some(store[LastId])
       /\ IF faceMatchResult.isMatch
          THEN /\ store[LastId].status = COMPLETED
               /\ lastCall.outcome.thrown = Null
               /\ lastCall.outcome.returned = Some(store[LastId])
          ELSE /\ store[LastId].status = FAILED
               /\ store[LastId].failureReason = Some("Face match failed")
               /\ lastCall.outcome.thrown = Some("Face match failed")
               /\ lastCall.outcome.returned = Null

\* C11 witness: a live selfie whose similarity to the document face is 85
\* left the record failed with the comparison result stored
C11_Witness ==
  /\ FaceMatchReturned
  /\ ~lastCall.faceMatch[1].value[1].isMatch
  /\ lastCall.faceMatch[1].value[1].confidence = 85
  /\ store[LastId].faceMatchResult = Some(lastCall.faceMatch[1].value[1])
  /\ store[LastId].status = FAILED

\* the last call was verifyFace and findOne found no record of its id
FaceCallNotFound == lastCall.op = "verifyFace" /\ lastCall.liveness = Null

\* C12: verifyFace on an id the store does not hold fails with "Verification
\* not found", invokes neither detectLiveness nor verifyFaceMatch, and neither
\* creates nor modifies a record.
C12_UnknownIdTouchesNothing ==
  [][(lastCall'.op = "verifyFace" /\ lastCall'.verificationId[1] \notin DOMAIN store) =>
       /\ lastCall'.outcome.thrown = Some("Verification not found")
       /\ lastCall'.outcome.returned = Null
       /\ ~Called(lastCall'.outcome, "detectLiveness")
       /\ ~Called(lastCall'.outcome, "verifyFaceMatch")
       /\ lastCall'.outcome.saved = Null
       /\ store' = store]_vars

\* C12 witness: verifyFace was called on an unknown id while records exist
C12_Witness ==
  /\ FaceCallNotFound
  /\ Len(store) > 0
  /\ LastId \notin DOMAIN store
  /\ lastCall.outcome.thrown = Some("Verification not found")

C14_FaceFailurePersistedAsThrown ==
  (FaceCallOnRecord /\ lastCall.outcome.thrown # Null) =>
    /\ store[LastId].status = FAILED
    /\ store[LastId].failureReason = lastCall.outcome.thrown
    /\ lastCall.outcome.saved = Some(store[LastId])
    /\ lastCall.outcome.calls[Len(lastCall.outcome.calls)] = "save"
    /\ lastCall.outcome.returned = Null

\* C14 witness: the selfie showed two faces and the record failed with the
\* message detectLiveness threw
C14_Witness ==
  /\ FaceCallOnRecord
  /\ lastCall.liveness[1].threw
  /\ lastCall.outcome.thrown = Some("Multiple faces detected in the image")
  /\ store[LastId].failureReason = Some("Multiple faces detected in the image")

\* C15: in every persisted state a record that is not failed has a null
\* failureReason and a failed record has a non-null one.
C15_FailureReasonIffFailed ==
  \A id \in DOMAIN store :
    (store[id].status = FAILED) <=> (store[id].failureReason # Null)

\* ---- the document step ----

\* verifyDocument ran on the call of stepCall
DocumentStepRan == stepCall # Null /\ stepCall[1].result # Null

\* the extracted data holds a non-empty value under the key
HasValue(fields, key) == key \in DOMAIN fields /\ fields[key].value # <<>>

\* the names of the list whose lower-cased key has no value in the fields
NamesWithoutValue(names, fields) ==
  SelectSeq(names, LAMBDA name : ~HasValue(fields, ToLowerCase(name)))

MissingReason(names) == "Missing required fields: " \o JoinComma(names)

\* the expiration texts of ExpirationReports that lie before 2024-03-29
PastExpirations ==
  {Date2020,
   <<"2", "0", "2", "0">>,
   <<"2", "0", "2", "4", "-", "0", "3", "-", "2", "8">>}

\* the expiration_date value is a date before the instant of the call
ExpirationPassed(fields) ==
  HasValue(fields, "expiration_date") /\ fields["expiration_date"].value \in PastExpirations

\* 6 to 9 characters, each in A-Z or 0-9
SixToNineUpperAlphanumerics(text) ==
  /\ Len(text) \in 6..9
  /\ \A i \in 1..Len(text) : text[i] \in UpperLetters \/ text[i] \in {Digits[d] : d \in 1..10}

\* the reason of the type-specific format check, "" when it accepts
FormatReason(documentType, fields) ==
  CASE documentType = PASSPORT ->
         IF /\ HasValue(fields, "passport_number")
            /\ SixToNineUpperAlphanumerics(fields["passport_number"].value)
         THEN "" ELSE "Invalid passport number format"
    [] documentType = DRIVERS_LICENSE ->
         IF HasValue(fields, "license_number") /\ Len(fields["license_number"].value) >= 5
         THEN "" ELSE "Invalid license number format"
    [] documentType = ID_CARD ->
         IF HasValue(fields, "id_number") /\ Len(fields["id_number"].value) >= 5
         THEN "" ELSE "Invalid ID number format"
    [] OTHER -> ""

\* C16: validation is short-circuit in the order missing fields, expiration,
\* type-specific format: the reason returned is that of the first check
\* that fails (the missing-field reason lists all missing names joined by
\* comma), and the result is valid iff all three checks pass.
C16_ValidationOrder ==
  DocumentStepRan =>
    LET call == stepCall[1]
        result == call.result[1]
        missing == NamesWithoutValue(result.requiredFields, result.fields)
        expired == ExpirationPassed(result.fields)
        format == FormatReason(call.documentType, result.fields)
    IN /\ result.validation =
            IF missing # <<>> THEN Invalid(MissingReason(missing))
            ELSE IF expired THEN Invalid("Document has expired")
            ELSE IF format # "" THEN Invalid(format)
            ELSE Valid
       /\ result.validation.isValid <=> (missing = <<>> /\ ~expired /\ format = "")
       /\ result.outcome.threw = ~result.validation.isValid
       /\ result.outcome.threw => result.outcome.message = result.validation.reason

\* C16 witness: a passport without first and last name, expired in 2020 and
\* with a number of four characters was rejected for its missing fields
C16_Witness ==
  /\ DocumentStepRan
  /\ stepCall[1].documentType = PASSPORT
  /\ ExpirationPassed(stepCall[1].result[1].fields)
  /\ HasValue(stepCall[1].result[1].fields, "passport_number")
  /\ FormatReason(PASSPORT, stepCall[1].result[1].fields) # ""
  /\ stepCall[1].result[1].validation =
       Invalid("Missing required fields: FIRST_NAME, LAST_NAME")

\* the required fields of each document type
RequiredOf(documentType) ==
  {"FIRST_NAME", "LAST_NAME", "DATE_OF_BIRTH", "EXPIRATION_DATE"}
    \cup (CASE documentType = PASSPORT -> {"PASSPORT_NUMBER", "NATIONALITY"}
            [] documentType = DRIVERS_LICENSE -> {"LICENSE_NUMBER", "STATE"}
            [] documentType = ID_CARD -> {"ID_NUMBER"})

\* C17: for each document type getRequiredFields returns first name, last
\* name, date of birth and expiration date, plus passport number and
\* nationality (passport), license number and state (drivers_license) or id
\* number (id_card); validation fails with a missing-fields reason whenever
\* one of them is absent.
C17_RequiredFields ==
  (DocumentStepRan /\ stepCall[1].documentType \in DocumentType) =>
    LET call == stepCall[1]
        result == call.result[1]
        absent == {name \in RequiredOf(call.documentType) :
                     ToLowerCase(name) \notin DOMAIN result.fields}
    IN /\ {result.requiredFields[i] : i \in DOMAIN result.requiredFields}
            = RequiredOf(call.documentType)
       /\ Len(result.requiredFields) = Cardinality(RequiredOf(call.documentType))
       /\ absent # {} =>
            /\ ~result.validation.isValid
            /\ \E names \in [1..Cardinality(absent) -> absent] :
                 result.validation.reason = MissingReason(names)
            /\ result.outcome.threw

\* C17 witness: an id card was requested and the document lacks only the id
\* number
C17_Witness ==
  /\ DocumentStepRan
  /\ stepCall[1].documentType = ID_CARD
  /\ stepCall[1].result[1].validation = Invalid("Missing required fields: ID_NUMBER")

\* the analyzer reported the field with a confidence and a non-empty value
ReportedInFull(document, name) ==
  \E i \in DOMAIN document.IdentityDocumentFields :
    LET field == document.IdentityDocumentFields[i]
    IN field.type = name /\ field.confidence # Null /\ field.text # <<>>

\* C18: a required field counts as present only if the analyzer supplied
\* both a confidence and a non-empty value for it: a required field that
\* came with a value but no confidence, or with a confidence but an empty
\* value, is reported as missing.
C18_PresentNeedsConfidenceAndValue ==
  DocumentStepRan =>
    LET call == stepCall[1]
        result == call.result[1]
        notPresent == SelectSeq(result.requiredFields,
                                LAMBDA name : ~ReportedInFull(call.document, name))
    IN notPresent # <<>> => result.validation = Invalid(MissingReason(notPresent))

\* C19: the expiration check fails with "Document has expired" exactly when
\* the expiration_date value parses to a date strictly before the current
\* time; a date equal to or after now, or a value that is no date, passes it.
C19_ExpiredIffStrictlyBefore ==
  DocumentStepRan =>
    LET call == stepCall[1]
        result == call.result[1]
        missing == NamesWithoutValue(result.requiredFields, result.fields)
    IN missing = <<>> =>
         /\ (result.validation = Invalid("Document has expired"))
              <=> ExpirationPassed(result.fields)
         /\ ~ExpirationPassed(result.fields) =>
              result.validation.isValid = (FormatReason(call.documentType, result.fields) = "")

\* C19 witness: a passport that expires at the instant of the call is valid
C19_Witness ==
  /\ DocumentStepRan
  /\ stepCall[1].now = Today
  /\ HasValue(stepCall[1].result[1].fields, "expiration_date")
  /\ stepCall[1].result[1].fields["expiration_date"].value =
       <<"2", "0", "2", "4", "-", "0", "3", "-", "2", "9">>
  /\ stepCall[1].result[1].validation.isValid
  /\ ~stepCall[1].result[1].outcome.threw

\* the call reached the type-specific format check
FormatCheckReached ==
  /\ DocumentStepRan
  /\ NamesWithoutValue(stepCall[1].result[1].requiredFields,
                       stepCall[1].result[1].fields) = <<>>
  /\ ~ExpirationPassed(stepCall[1].result[1].fields)

\* C20: the format check accepts a passport number iff it has 6 to 9
\* characters each in A-Z or 0-9 (else "Invalid passport number format"), a
\* drivers-license number iff it has at least 5 characters, an id-card
\* number iff it has at least 5 characters, and everything for a document
\* type outside the three known ones.
C20_FormatCheck ==
  FormatCheckReached =>
    LET call == stepCall[1]
        fields == call.result[1].fields
        validation == call.result[1].validation
    IN CASE call.documentType = PASSPORT ->
              /\ validation.isValid
                   <=> SixToNineUpperAlphanumerics(fields["passport_number"].value)
              /\ ~validation.isValid => validation.reason = "Invalid passport number format"
         [] call.documentType = DRIVERS_LICENSE ->
              validation.isValid <=> Len(fields["license_number"].value) >= 5
         [] call.documentType = ID_CARD ->
              validation.isValid <=> Len(fields["id_number"].value) >= 5
         [] OTHER -> validation.isValid

\* C20 witness: a passport number of ten characters was rejected
C20_Witness ==
  /\ FormatCheckReached
  /\ stepCall[1].documentType = PASSPORT
  /\ Len(stepCall[1].result[1].fields["passport_number"].value) = 10
  /\ stepCall[1].result[1].validation = Invalid("Invalid passport number format")

\* the confidences of the fields of the extracted data, in any order
RECURSIVE ConfidencesOf(_, _)
ConfidencesOf(fields, names) ==
  IF names = {} THEN <<>>
  ELSE LET name == CHOOSE n \in names : TRUE
       IN <<OrZero(fields[name].confidence)>> \o ConfidencesOf(fields, names \ {name})

\* the arithmetic mean of the confidences of the extracted fields
MeanConfidence(fields) ==
  IF DOMAIN fields = {} THEN Frac(0, 1)
  ELSE Frac(SeqSum(ConfidencesOf(fields, DOMAIN fields)), Cardinality(DOMAIN fields))

\* the document step returned a result and the analyzer had given every
\* extracted field a confidence
ExtractedWithConfidences ==
  /\ DocumentStepRan
  /\ ~stepCall[1].result[1].outcome.threw
  /\ \A name \in DOMAIN stepCall[1].result[1].fields :
       stepCall[1].result[1].fields[name].confidence # Null

\* C21: the confidenceScore of a verified document is the arithmetic mean of
\* the confidences of every extracted field, a field of confidence 0
\* included (0 when no field was extracted), and lies between 0 and 100.
C21_ConfidenceIsMeanOfExtracted ==
  ExtractedWithConfidences =>
    LET returned == stepCall[1].result[1].outcome.value[1]
    IN /\ returned.confidenceScore = MeanConfidence(returned.extractedData)
       /\ FracGeq(returned.confidenceScore, 0)
       /\ ~FracGeq(returned.confidenceScore, 101)

\* the direct call of the face-step method `op` has run
FaceStepRan(op) == FaceStepAt(op) /\ stepCall[1].result # Null

\* the face came with quality data of brightness and sharpness at least 50
BrightAndSharp(face) ==
  /\ face.Quality # Null
  /\ face.Quality[1].Brightness # Null
  /\ face.Quality[1].Brightness[1] >= 50
  /\ face.Quality[1].Sharpness # Null
  /\ face.Quality[1].Sharpness[1] >= 50

\* the face came with pose data of pitch, roll and yaw within 20 degrees
WithinTwentyDegrees(face) ==
  /\ face.Pose # Null
  /\ \A angle \in {face.Pose[1].Pitch, face.Pose[1].Roll, face.Pose[1].Yaw} :
       angle # Null /\ angle[1] >= -20 /\ angle[1] <= 20

C23_BothPreChecksAwaited ==
  FaceStepAt("verifyFaceMatch") =>
    LET call == stepCall[1]
        decided == call.pc \in {"comparing", "done"}
    IN /\ call.pc # "start" => call.issued = <<"document", "selfie">>
       /\ (decided \/ call.result # Null \/ call.compared > 0) =>
            /\ call.documentFaceQuality # Null
            /\ call.selfieFaceQuality # Null
            /\ {call.settled[i] : i \in DOMAIN call.settled} = {"document", "selfie"}
       /\ decided =>
            LET documentFaceQuality == call.documentFaceQuality[1]
                selfieFaceQuality == call.selfieFaceQuality[1]
            IN /\ call.compared =
                    IF documentFaceQuality.isValid /\ selfieFaceQuality.isValid
                    THEN 1 ELSE 0
               /\ ~documentFaceQuality.isValid =>
                    /\ call.pc = "done"
                    /\ call.result = Some(Threw("Document face image issue: "
                                                  \o documentFaceQuality.reason))
               /\ (documentFaceQuality.isValid /\ ~selfieFaceQuality.isValid) =>
                    /\ call.pc = "done"
                    /\ call.result = Some(Threw("Selfie image issue: "
                                                  \o selfieFaceQuality.reason))
               /\ call.pc = "done" =>
                    call.result = Some(verifyFaceMatch(call.documentResponse,
                                                       call.selfieResponse,
                                                       call.comparison))

\* C23 witness: the selfie's pre-check settled first, both pre-checks
\* rejected, and the error names the document face image
C23_Witness ==
  /\ FaceStepAt("verifyFaceMatch")
  /\ stepCall[1].pc = "done"
  /\ stepCall[1].settled = <<"selfie", "document">>
  /\ ~stepCall[1].documentFaceQuality[1].isValid
  /\ ~stepCall[1].selfieFaceQuality[1].isValid
  /\ stepCall[1].compared = 0
  /\ stepCall[1].result =
       Some(Threw("Document face image issue: Image quality is too low"))

\* the highest similarity among the matches returned (there is one at least)
HighestSimilarity(matches) ==
  CHOOSE highest \in {OrZero(matches[i].Similarity) : i \in DOMAIN matches} :
    \A i \in DOMAIN matches : OrZero(matches[i].Similarity) <= highest

\* verifyFaceMatch got an answer to its comparison and settled
ComparisonAnswered ==
  /\ FaceStepAt("verifyFaceMatch")
  /\ stepCall[1].pc = "done"
  /\ stepCall[1].compared = 1
  /\ stepCall[1].comparison.error = Null

\* C24: when the comparison returns at least one match, verifyFaceMatch
\* takes the match of highest similarity among all those returned, whatever
\* their order: confidence is that similarity and isMatch holds iff it is at
\* least 90; with no match it returns isMatch false, confidence 0 and the
\* reason "No matching faces found".
C24_HighestSimilarityMatch ==
  ComparisonAnswered =>
    LET matches == stepCall[1].comparison.FaceMatches
        result == stepCall[1].result[1]
    IN /\ ~result.threw
       /\ IF matches = <<>>
          THEN /\ result.value[1].isMatch = FALSE
               /\ result.value[1].confidence = 0
               /\ result.value[1].details.reason = "No matching faces found"
          ELSE /\ result.value[1].confidence = HighestSimilarity(matches)
               /\ result.value[1].isMatch <=> HighestSimilarity(matches) >= 90

\* C25: detectLiveness fails with "No face detected in the image" when the
\* analyzer finds no face and with "Multiple faces detected in the image"
\* when it finds several; on exactly one face it returns the liveness score
\* of that face as confidence and isLive iff the score is at least 80; an
\* analyzer exception is surfaced as an error carrying its message.
C25_LivenessOutcome ==
  FaceStepRan("detectLiveness") =>
    LET response == stepCall[1].response
        result == stepCall[1].result[1]
        faces == response.FaceDetails
    IN IF response.error # Null THEN result = Threw(response.error[1])
       ELSE IF Len(faces) = 0 THEN result = Threw("No face detected in the image")
       ELSE IF Len(faces) > 1 THEN result = Threw("Multiple faces detected in the image")
       ELSE /\ ~result.threw
            /\ result.value[1].confidence = calculateLivenessScore(faces[1])
            /\ result.value[1].isLive <=>
                 result.value[1].confidence[1] >= 80 * result.value[1].confidence[2]

\* C25 witness: the analyzer found two faces and detectLiveness threw
C25_Witness ==
  /\ FaceStepRan("detectLiveness")
  /\ Len(stepCall[1].response.FaceDetails) = 2
  /\ stepCall[1].result[1] = Threw("Multiple faces detected in the image")

\* the signals that contribute to the liveness score of a face: eyes-open
\* confidence, brightness and sharpness when present, 100 for a pose within
\* 20 degrees, 100 for sunglasses detected as absent
ContributingSignals(face) ==
  (IF face.EyesOpen # Null THEN <<face.EyesOpen[1]>> ELSE <<>>)
  \o (IF face.Quality # Null /\ face.Quality[1].Brightness # Null
      THEN <<face.Quality[1].Brightness[1]>> ELSE <<>>)
  \o (IF face.Quality # Null /\ face.Quality[1].Sharpness # Null
      THEN <<face.Quality[1].Sharpness[1]>> ELSE <<>>)
  \o (IF WithinTwentyDegrees(face) THEN <<100>> ELSE <<>>)
  \o (IF face.Sunglasses = Some(FALSE) THEN <<100>> ELSE <<>>)

\* detectLiveness scored the single face the analyzer found
SingleFaceScored ==
  /\ FaceStepRan("detectLiveness")
  /\ stepCall[1].response.error = Null
  /\ Len(stepCall[1].response.FaceDetails) = 1
  /\ ~stepCall[1].result[1].threw

\* C26: the liveness score of a face is the arithmetic mean of exactly its
\* contributing signals (eyes-open confidence, brightness and sharpness with
\* their raw value when present, 100 when the pose is acceptable, 100 when
\* sunglasses are detected as absent), 0 when there is no signal, and lies
\* between 0 and 100.
C26_ScoreIsMeanOfSignals ==
  SingleFaceScored =>
    LET signals == ContributingSignals(stepCall[1].response.FaceDetails[1])
        score == stepCall[1].result[1].value[1].confidence
    IN /\ score = IF signals = <<>> THEN Frac(0, 1)
                  ELSE Frac(SeqSum(signals), Len(signals))
       /\ score[1] >= 0
       /\ score[1] <= 100 * score[2]

\* the face has brightness and sharpness below 50, an angle beyond 20
\* degrees and sunglasses detected
PoorBadPoseSunglasses(face) ==
  /\ face.Quality # Null
  /\ face.Quality[1].Brightness # Null
  /\ face.Quality[1].Brightness[1] < 50
  /\ face.Quality[1].Sharpness # Null
  /\ face.Quality[1].Sharpness[1] < 50
  /\ face.Pose # Null
  /\ \E angle \in {face.Pose[1].Pitch, face.Pose[1].Roll, face.Pose[1].Yaw} :
       angle # Null /\ (angle[1] > 20 \/ angle[1] < -20)
  /\ face.Sunglasses = Some(TRUE)

\* C27: a single detected face of poor quality (brightness and sharpness
\* below 50), unacceptable pose and detected sunglasses has a liveness score
\* below 80 and is reported not live, whatever its eyes-open confidence.
C27_PoorFaceNeverLive ==
  (SingleFaceScored /\ PoorBadPoseSunglasses(stepCall[1].response.FaceDetails[1])) =>
    LET returned == stepCall[1].result[1].value[1]
    IN /\ returned.confidence[1] < 80 * returned.confidence[2]
       /\ returned.isLive = FALSE

\* the request id a request came in with: the value of its request-id
\* header under whatever casing, "" when it has none
IncomingRequestId(headers) ==
  IF \E name \in DOMAIN headers : name \in RequestIdNames
  THEN headers[CHOOSE name \in DOMAIN headers : name \in RequestIdNames]
  ELSE ""

MiddlewareRan == stepCall # Null /\ stepCall[1].op = "use" /\ stepCall[1].done

\* C29: after RequestIdMiddleware.use the request's x-request-id header and
\* the response's X-Request-ID header hold the same non-empty value and
\* next() was called exactly once; a request id that came in, under any
\* casing of the header name, is kept and none is generated, otherwise a
\* freshly generated id is used.
C29_RequestIdPropagated ==
  MiddlewareRan =>
    LET call == stepCall[1]
        incoming == IncomingRequestId(call.received)
    IN /\ "x-request-id" \in DOMAIN call.req.headers
       /\ "X-Request-ID" \in DOMAIN call.res.headers
       /\ call.req.headers["x-request-id"] = call.res.headers["X-Request-ID"]
       /\ call.req.headers["x-request-id"] # ""
       /\ call.next = 1
       /\ IF incoming # ""
          THEN /\ call.req.headers["x-request-id"] = incoming
               /\ call.generated = <<>>
          ELSE /\ call.generated = <<call.req.headers["x-request-id"]>>
               /\ call.generated[1] \in GeneratedIds

\* the startVerification requests that have inserted their record
StartedRequests ==
  {i \in DOMAIN requests :
     requests[i].op = "startVerification" /\ requests[i].pc # "create"}

\* C28: overlapping requests share nothing but the record store and each
\* touches only its own record: startVerification creates exactly one new
\* record under an id no record has and modifies no record that existed;
\* verifyFace on an id leaves the records of the other ids unchanged; no
\* step deletes a record or changes a record's id, userId or documentType,
\* under every interleaving.
C28_OwnRecordOnly ==
  [][/\ Len(store') >= Len(store)
     /\ Len(store) = Len(StoredRecords) + Cardinality(StartedRequests)
     /\ \A id \in DOMAIN store :
          /\ store[id].id = id
          /\ store'[id].id = store[id].id
          /\ store'[id].userId = store[id].userId
          /\ store'[id].documentType = store[id].documentType
     /\ \E i \in DOMAIN requests :
          /\ \A j \in DOMAIN requests : j # i => requests'[j] = requests[j]
          /\ \A id \in DOMAIN store :
               store'[id] # store[id] => requests[i].verificationId = Some(id)
          /\ IF requests[i].op = "startVerification" /\ requests[i].pc = "create"
             THEN /\ Len(store') = Len(store) + 1
                  /\ store'[Len(store')].id = Len(store')
                  /\ requests'[i].verificationId = Some(Len(store'))
                  /\ \A id \in DOMAIN store : store'[id] = store[id]
             ELSE Len(store') = Len(store)]_vars

\* C28 witness: a startVerification that has inserted record 3 and a
\* verifyFace that has saved record 1 are both in flight, and record 2 is
\* as it was
C28_Witness ==
  /\ requests # <<>>
  /\ \E i, j \in DOMAIN requests :
       /\ requests[i].op = "startVerification"
       /\ requests[i].pc = "verifyDocument"
       /\ requests[i].verificationId = Some(3)
       /\ requests[j].op = "verifyFace"
       /\ requests[j].verificationId = Some(1)
       /\ requests[j].saves = 1
       /\ requests[j].pc = "saveCaught"
  /\ Len(store) = 3
  /\ store[1] # StoredRecords[1]
  /\ store[2] = StoredRecords[2]

\* the two requests are verifyFace calls on the same id that both read the
\* record before either wrote it
FaceRace ==
  /\ requests # <<>>
  /\ \A i \in DOMAIN requests :
       /\ requests[i].op = "verifyFace"
       /\ requests[i].verificationId = requests[1].verificationId
       /\ requests[i].read # Null
       /\ requests[i].readFresh

BothSettled == \A i \in DOMAIN requests : requests[i].pc = "done"

\* what request i does to the record as read when it runs alone
RunAlone(i) ==
  verifyFace(requests[1].read[1], requests[i].livenessOutcome[1],
             requests[i].faceMatchOutcome[1])

\* the record after request i ran and request j ran after it
RunInOrder(i, j) ==
  verifyFace(RunAlone(i).saved[1], requests[j].livenessOutcome[1],
             requests[j].faceMatchOutcome[1]).saved[1]

\* C30 (as stated): when two verifyFace calls on the same id overlap, every
\* persisted state of the record is one that running the two calls one after
\* the other produces, and the final state is the final state of one of the
\* two serial orders: no update is lost.
C30_SerialOutcome ==
  FaceRace =>
    LET persisted == store[requests[1].verificationId[1]]
    IN /\ persisted \in {requests[1].read[1], RunAlone(1).saved[1], RunAlone(2).saved[1],
                         RunInOrder(1, 2), RunInOrder(2, 1)}
       /\ BothSettled => persisted \in {RunInOrder(1, 2), RunInOrder(2, 1)}

\* C30 (amended): when two verifyFace calls on the same id overlap, every
\* persisted state of the record is the record as read or the result of one
\* of the two calls run alone on the record as read, and each call answers
\* as if it ran alone; the final state is the result of one call alone: the
\* call that saves last overwrites the update of the other.
C30_LastWriterWins ==
  FaceRace =>
    LET persisted == store[requests[1].verificationId[1]]
    IN /\ persisted \in {requests[1].read[1], RunAlone(1).saved[1], RunAlone(2).saved[1]}
       /\ BothSettled =>
            /\ persisted \in {RunAlone(1).saved[1], RunAlone(2).saved[1]}
            /\ \A i \in DOMAIN requests :
                 /\ requests[i].thrown = RunAlone(i).thrown
                 /\ requests[i].returned = RunAlone(i).returned

\* C30 witness: both calls have settled, one failed the record for its
\* liveness check and the other completed it, and the record is completed
\* without a failure reason, which neither serial order gives
C30_Witness ==
  /\ FaceRace
  /\ BothSettled
  /\ \E i \in DOMAIN requests : requests[i].thrown = Some("Liveness check failed")
  /\ \E i \in DOMAIN requests : requests[i].returned # Null
  /\ store[requests[1].verificationId[1]].status = COMPLETED
  /\ store[requests[1].verificationId[1]].failureReason = Null
  /\ store[requests[1].verificationId[1]] \notin {RunInOrder(1, 2), RunInOrder(2, 1)}

====
